---- MODULE Spec2Model ----
(***************************************************************************)
(* A model of nextaction.py: the item tree of a Todoist project            *)
(* (Project.BuildItemTree), the next-action traversal (Item.GetItemMods,   *)
(* Project.GetItemMods, TraversalState), the generation of the sync        *)
(* operations (TodoistData.GetProjectMods) and the merge of the server's   *)
(* deltas into the local mirror (TodoistData.UpdateChangedData), driven by *)
(* the loop of main().                                                     *)
(*                                                                         *)
(* Conventions.  A text (an item's content, a project's name) is a         *)
(* sequence of one-character strings, so that endswith is computed.  A     *)
(* Python dict is a function; "key in dict" is "key \in DOMAIN dict".  An  *)
(* exception that nothing catches ends the process: pc = "crashed".  The   *)
(* item forest of a project is held as the list of its Item objects in     *)
(* creation order, each with the index of its parent (Root for the         *)
(* project); the children of a node, in list order, are the nodes that     *)
(* name it as parent, in ascending index.  Not modelled: the sync cursor   *)
(* (_seq_no), timestamps, due dates (read by nothing since SortChildren    *)
(* is a no-op), logging, and the HTTP transport.                           *)
(***************************************************************************)
EXTENDS Integers, Sequences, FiniteSets, TLC

VARIABLES
  args,             \* the global args: [use_priority |-> BOOLEAN]
  _next_action_id,  \* TodoistData._next_action_id
  _projects,        \* TodoistData._projects: project id -> Project
  mods,             \* main(): the list GetProjectMods returned last
  initial_data,     \* main(): the full snapshot fetched at startup
  changed_data,     \* main(): the delta received last
  states,           \* project id -> the TraversalState of its last traversal
  pc,               \* the statement main() executes next
  syncs             \* number of deltas received so far

vars == <<args, _next_action_id, _projects, mods, initial_data, changed_data,
          states, pc, syncs>>

-----------------------------------------------------------------------------
(* Bounds of the model *)

MaxItems == 3       \* items of the project in SpecTraversal
MaxDepth == 2       \* deepest indent in SpecTraversal
MaxTreeItems == 5   \* items of the project in SpecTree
MaxIndent == 2      \* largest indent in SpecTree
MaxMirrorItems == 2 \* items of the snapshot in Spec
MaxChainItems == 3  \* items of the project, and deepest indent, in SpecChain
MaxSyncs == 1       \* deltas received in Spec

-----------------------------------------------------------------------------
(* Values *)

None == "None"
NEXT_ACTION_LABEL == "next_action"
\* '$%d' % int(time.time()): the temporary id of the registered label
TempId == "$time"
\* the index that stands for the project in parent pointers (parent_item = self)
Root == 0
\* Project.indent
ProjectIndent == 0
\* the priority that marks a next action, and the one a removal resets to
MarkerPriority == 4
PlainPriority == 1

Range(s) == {s[i] : i \in 1..Len(s)}

\* str.endswith
EndsWith(s, suffix) ==
  /\ Len(s) >= Len(suffix)
  /\ SubSeq(s, Len(s) - Len(suffix) + 1, Len(s)) = suffix

\* list.remove(x) for an x that is in the list: drop its first occurrence
RECURSIVE ListRemove(_, _)
ListRemove(s, x) ==
  IF s = <<>> THEN <<>>
  ELSE IF Head(s) = x THEN Tail(s)
  ELSE <<Head(s)>> \o ListRemove(Tail(s), x)

-----------------------------------------------------------------------------
(* TraversalState *)

TraversalState(next_action_label_id) ==
  [remove_labels |-> <<>>, add_labels |-> <<>>, found_next_action |-> FALSE,
   next_action_label_id |-> next_action_label_id]

\* clone that hands the lists of the state on to the copy
clone_KeepsLists(self) == self

clone(self) ==
  [TraversalState(self.next_action_label_id)
     EXCEPT !.found_next_action = self.found_next_action]

merge(self, other) ==
  [self EXCEPT
     !.found_next_action = self.found_next_action \/ other.found_next_action,
     !.remove_labels = self.remove_labels \o other.remove_labels,
     !.add_labels = self.add_labels \o other.add_labels]

-----------------------------------------------------------------------------
(* Item *)

\* Item.__init__: the object made from an item record; parent is set when
\* BuildItemTree attaches it.  labels is the record's own list (an alias).
Item(data) ==
  [parent |-> Root,
   checked |-> (data.checked = 1),
   content |-> data.content,
   indent |-> data.indent,
   item_id |-> data.id,
   labels |-> data.labels,
   priority |-> data.priority]

Item_IsSequential(self) == ~EndsWith(self.content, <<"=">>)
Item_IsParallel(self) == EndsWith(self.content, <<"=">>)

\* item.children of node k (Root: the project's children), in list order
RECURSIVE ChildrenFrom(_, _, _)
ChildrenFrom(children, k, i) ==
  IF i > Len(children) THEN <<>>
  ELSE (IF children[i].parent = k THEN <<i>> ELSE <<>>)
         \o ChildrenFrom(children, k, i + 1)

Children(children, k) == ChildrenFrom(children, k, 1)

\* ItemSelfMods without "state.found_next_action = True"
ItemSelfMods_NeverFound(self, k, state) ==
  IF ~state.found_next_action /\ ~self.checked
  THEN IF args.use_priority /\ self.priority # MarkerPriority
       THEN [state EXCEPT !.add_labels = Append(@, k)]
       ELSE IF ~args.use_priority
               /\ state.next_action_label_id \notin Range(self.labels)
       THEN [state EXCEPT !.add_labels = Append(@, k)]
       ELSE state
  ELSE IF args.use_priority /\ self.priority = MarkerPriority
       THEN [state EXCEPT !.remove_labels = Append(@, k)]
       ELSE IF ~args.use_priority
               /\ state.next_action_label_id \in Range(self.labels)
       THEN [state EXCEPT !.remove_labels = Append(@, k)]
       ELSE state

\* ItemSelfMods that leaves a marker where it finds one
ItemSelfMods_NeverRemoves(self, k, state) ==
  IF ~state.found_next_action /\ ~self.checked
  THEN LET found == [state EXCEPT !.found_next_action = TRUE] IN
       IF args.use_priority /\ self.priority # MarkerPriority
       THEN [found EXCEPT !.add_labels = Append(@, k)]
       ELSE IF ~args.use_priority
               /\ state.next_action_label_id \notin Range(self.labels)
       THEN [found EXCEPT !.add_labels = Append(@, k)]
       ELSE found
  ELSE state

\* ItemSelfMods that does not look at self.checked
ItemSelfMods_IgnoresChecked(self, k, state) ==
  IF ~state.found_next_action
  THEN LET found == [state EXCEPT !.found_next_action = TRUE] IN
       IF args.use_priority /\ self.priority # MarkerPriority
       THEN [found EXCEPT !.add_labels = Append(@, k)]
       ELSE IF ~args.use_priority
               /\ state.next_action_label_id \notin Range(self.labels)
       THEN [found EXCEPT !.add_labels = Append(@, k)]
       ELSE found
  ELSE IF args.use_priority /\ self.priority = MarkerPriority
       THEN [state EXCEPT !.remove_labels = Append(@, k)]
       ELSE IF ~args.use_priority
               /\ state.next_action_label_id \in Range(self.labels)
       THEN [state EXCEPT !.remove_labels = Append(@, k)]
       ELSE state

\* Item.GetItemMods, lines 68-78: the node's own verdict after its children
ItemSelfMods(self, k, state) ==
  IF ~state.found_next_action /\ ~self.checked
  THEN LET found == [state EXCEPT !.found_next_action = TRUE] IN
       IF args.use_priority /\ self.priority # MarkerPriority
       THEN [found EXCEPT !.add_labels = Append(@, k)]
       ELSE IF ~args.use_priority
               /\ state.next_action_label_id \notin Range(self.labels)
       THEN [found EXCEPT !.add_labels = Append(@, k)]
       ELSE found
  ELSE IF args.use_priority /\ self.priority = MarkerPriority
       THEN [state EXCEPT !.remove_labels = Append(@, k)]
       ELSE IF ~args.use_priority
               /\ state.next_action_label_id \in Range(self.labels)
       THEN [state EXCEPT !.remove_labels = Append(@, k)]
       ELSE state

RECURSIVE Item_GetItemMods(_, _, _)
RECURSIVE SequentialLoop(_, _, _)
RECURSIVE ParallelLoop(_, _, _, _)
RECURSIVE RemovalLoop(_, _, _)

\* for item in self.children: item.GetItemMods(state)
SequentialLoop(children, kids, state) ==
  IF kids = <<>> THEN state
  ELSE SequentialLoop(children, Tail(kids),
                      Item_GetItemMods(children, Head(kids), state))

\* ParallelLoop handing every child the running state instead of a clone
ParallelLoop_SharedState(children, kids, frozen_state, state) ==
  SequentialLoop(children, kids, state)

\* for item in self.children: temp_state = frozen_state.clone();
\*   item.GetItemMods(temp_state); state.merge(temp_state)
ParallelLoop(children, kids, frozen_state, state) ==
  IF kids = <<>> THEN state
  ELSE ParallelLoop(children, Tail(kids), frozen_state,
         merge(state, Item_GetItemMods(children, Head(kids), clone(frozen_state))))

Item_SequentialItemMods(children, k, state) ==
  SequentialLoop(children, Children(children, k), state)

Item_ParallelItemMods(children, k, state) ==
  ParallelLoop(children, Children(children, k), clone(state), state)

\* Item.GetItemMods giving the node's own verdict before it visits the children
Item_GetItemMods_SelfFirst(children, k, state) ==
  LET self == children[k]
      own == ItemSelfMods(self, k, state)
  IN IF Item_IsSequential(self) THEN Item_SequentialItemMods(children, k, own)
     ELSE Item_ParallelItemMods(children, k, own)

\* Item.GetItemMods taking every item for a parallel one
Item_GetItemMods_AllParallel(children, k, state) ==
  ItemSelfMods(children[k], k, Item_ParallelItemMods(children, k, state))

Item_GetItemMods(children, k, state) ==
  LET self == children[k]
      below == IF Item_IsSequential(self)
               THEN Item_SequentialItemMods(children, k, state)
               ELSE IF Item_IsParallel(self)
               THEN Item_ParallelItemMods(children, k, state)
               ELSE state
  IN ItemSelfMods(self, k, below)

\* Item.GetLabelRemovalMods without the descent into self.children
Item_GetLabelRemovalMods_NoDescent(children, k, state) ==
  IF args.use_priority THEN state
  ELSE IF state.next_action_label_id \in Range(children[k].labels)
  THEN [state EXCEPT !.remove_labels = Append(@, k)]
  ELSE state

\* Item.GetLabelRemovalMods
Item_GetLabelRemovalMods(children, k, state) ==
  IF args.use_priority THEN state
  ELSE LET self == children[k]
           own == IF state.next_action_label_id \in Range(self.labels)
                  THEN [state EXCEPT !.remove_labels = Append(@, k)]
                  ELSE state
       IN RemovalLoop(children, Children(children, k), own)

RemovalLoop(children, kids, state) ==
  IF kids = <<>> THEN state
  ELSE RemovalLoop(children, Tail(kids),
                   Item_GetLabelRemovalMods(children, Head(kids), state))

-----------------------------------------------------------------------------
(* Project *)

EmptyDict == [x \in {} |-> None]

\* Project.__init__ (is_archived, is_deleted, last_updated and content are
\* stored and never read again, except by logging)
Project(data) ==
  [unsorted_items |-> EmptyDict,
   children |-> <<>>,
   indent |-> ProjectIndent,
   name |-> data.name,
   project_id |-> data.id]

\* Project.UpdateChangedData
Project_UpdateChangedData(self, data) == [self EXCEPT !.name = data.name]

Project_IsSequential(self) == EndsWith(self.name, <<"-", "-">>)
Project_IsParallel(self) == EndsWith(self.name, <<"=">>)

\* Project.GetItemMods
Project_GetItemMods(self, st) ==
  LET top == Children(self.children, Root) IN
  IF Project_IsSequential(self)
  THEN SequentialLoop(self.children, top, st)
  ELSE IF Project_IsParallel(self)
  THEN ParallelLoop(self.children, top, clone(st), st)
  ELSE RemovalLoop(self.children, top, st)

\* Project.AddItem
Project_AddItem(self, item) ==
  [self EXCEPT !.unsorted_items =
     [i \in (DOMAIN @) \cup {item.id} |-> IF i = item.id THEN item ELSE @[i]]]

\* Project.DelItem for an item the dict holds (del raises KeyError otherwise)
Project_DelItem(self, item) ==
  [self EXCEPT !.unsorted_items = [i \in (DOMAIN @) \ {item.id} |-> @[i]]]

\* sorted(self.unsorted_items.values(), key=item_order).  The sort is stable:
\* equal keys keep the dict's iteration order, ascending id for small ints.
Before(a, b) ==
  \/ a.item_order < b.item_order
  \/ a.item_order = b.item_order /\ a.id < b.id

RECURSIVE SortedFrom(_, _)
SortedFrom(unsorted_items, ids) ==
  IF ids = {} THEN <<>>
  ELSE LET first == CHOOSE i \in ids :
             \A j \in ids \ {i} : Before(unsorted_items[i], unsorted_items[j])
       IN <<unsorted_items[first]>> \o SortedFrom(unsorted_items, ids \ {first})

SortedItems(unsorted_items) == SortedFrom(unsorted_items, DOMAIN unsorted_items)

\* the indent of a node of the forest under construction (Root: the project)
IndentOf(nodes, p) == IF p = Root THEN ProjectIndent ELSE nodes[p].indent

\* while item.indent <= parent_item.indent: parent_item = parent_item.parent.
\* A Project has no attribute parent: walking up from it raises AttributeError.
RECURSIVE WalkUp(_, _, _)
WalkUp(nodes, indent, parent_item) ==
  IF indent <= IndentOf(nodes, parent_item)
  THEN IF parent_item = Root
       THEN [raised |-> TRUE, at |-> Root]
       ELSE WalkUp(nodes, indent, nodes[parent_item].parent)
  ELSE [raised |-> FALSE, at |-> parent_item]

\* the body of the loop of BuildItemTree, from the item at the head of
\* sorted_items on
RECURSIVE BuildFrom(_, _)
BuildFrom(sorted_items, b) ==
  IF sorted_items = <<>> \/ b.raised THEN b
  ELSE LET item == Item(Head(sorted_items))
           pushed == IF item.indent > IndentOf(b.children, b.previous_item)
                     THEN b.previous_item ELSE b.parent_item
           up == WalkUp(b.children, item.indent, pushed)
       IN IF up.raised THEN [b EXCEPT !.raised = TRUE]
          ELSE BuildFrom(Tail(sorted_items),
                 [raised |-> FALSE,
                  children |-> Append(b.children, [item EXCEPT !.parent = up.at]),
                  parent_item |-> up.at,
                  previous_item |-> Len(b.children) + 1])

\* BuildItemTree without "self.children = []": the new nodes are added to
\* those of the build before
BuildItemTree_Extends(self) ==
  LET b == BuildFrom(SortedItems(self.unsorted_items),
                     [raised |-> FALSE, children |-> self.children,
                      parent_item |-> Root, previous_item |-> Root])
  IN [raised |-> b.raised, children |-> b.children]

\* Project.BuildItemTree: [raised, children]
BuildItemTree(self) ==
  LET b == BuildFrom(SortedItems(self.unsorted_items),
                     [raised |-> FALSE, children |-> <<>>,
                      parent_item |-> Root, previous_item |-> Root])
  IN [raised |-> b.raised, children |-> b.children]

-----------------------------------------------------------------------------
(* TodoistData *)

\* _SetLabelData: the id of the last label named next_action, if any
RECURSIVE LabelLoop(_, _)
LabelLoop(labels, next_action_id) ==
  IF labels = <<>> THEN next_action_id
  ELSE LabelLoop(Tail(labels),
                 IF Head(labels).name = NEXT_ACTION_LABEL
                 THEN Head(labels).id ELSE next_action_id)

SetLabelData(next_action_id, label_data) ==
  IF args.use_priority THEN next_action_id
  ELSE IF "Labels" \notin DOMAIN label_data THEN next_action_id
  ELSE LabelLoop(label_data.Labels, next_action_id)

\* __init__, lines 208-210: the projects of the snapshot that are not deleted
RECURSIVE InitProjects(_, _)
InitProjects(records, projects) ==
  IF records = <<>> THEN projects
  ELSE LET project == Head(records) IN
       InitProjects(Tail(records),
         IF project.is_deleted = 0
         THEN [i \in (DOMAIN projects) \cup {project.id} |->
                 IF i = project.id THEN Project(project) ELSE projects[i]]
         ELSE projects)

\* __init__, lines 211-212: self._projects[item['project_id']].AddItem(item);
\* KeyError when the project is not in the dict
RECURSIVE InitItems(_, _)
InitItems(records, r) ==
  IF records = <<>> \/ r.raised THEN r
  ELSE LET item == Head(records) IN
       IF item.project_id \notin DOMAIN r.projects
       THEN [r EXCEPT !.raised = TRUE]
       ELSE InitItems(Tail(records),
              [r EXCEPT !.projects[item.project_id] = Project_AddItem(@, item)])

\* for project in self._projects.itervalues(): project.BuildItemTree()
BuildTrees(projects) ==
  LET built == [i \in DOMAIN projects |-> BuildItemTree(projects[i])] IN
  [raised |-> \E i \in DOMAIN projects : built[i].raised,
   projects |-> [i \in DOMAIN projects |->
                   [projects[i] EXCEPT !.children = built[i].children]]]

\* TodoistData.__init__: [raised, next_action_id, projects]
TodoistData(data) ==
  LET filled == InitItems(data.Items,
                  [raised |-> FALSE, projects |-> InitProjects(data.Projects, EmptyDict)])
      built == BuildTrees(filled.projects)
  IN [raised |-> filled.raised \/ built.raised,
      next_action_id |-> SetLabelData(None, data),
      projects |-> IF filled.raised THEN filled.projects ELSE built.projects]

\* MakeNewMod
MakeNewMod(item) == [type |-> "item_update", args |-> [id |-> item.item_id]]

\* AddLabel that changes the outgoing operation only, not the local mirror
AddLabel_PayloadOnly(project, k, next_action_id) ==
  [project |-> project,
   mod |-> [type |-> "item_update",
            args |-> IF args.use_priority
                     THEN [id |-> project.children[k].item_id,
                           priority |-> MarkerPriority]
                     ELSE [id |-> project.children[k].item_id,
                           labels |-> Append(project.children[k].labels,
                                             next_action_id)]]]

\* GetProjectMods, lines 296-304: the operation for one item of add_labels,
\* and the marker put on the Item object and on the record of unsorted_items
\* (in label mode item.labels is the record's own list)
AddLabel(project, k, next_action_id) ==
  LET item == project.children[k] IN
  IF args.use_priority
  THEN [project |-> [project EXCEPT
                       !.children[k].priority = MarkerPriority,
                       !.unsorted_items[item.item_id].priority = MarkerPriority],
        mod |-> [MakeNewMod(item) EXCEPT
                   !.args = @ @@ [priority |-> MarkerPriority]]]
  ELSE LET labels == Append(item.labels, next_action_id) IN
       [project |-> [project EXCEPT
                       !.children[k].labels = labels,
                       !.unsorted_items[item.item_id].labels = labels],
        mod |-> [MakeNewMod(item) EXCEPT !.args = @ @@ [labels |-> labels]]]

\* RemoveLabel whose operation carries the field as it was before the removal
RemoveLabel_StaleValue(project, k, next_action_id) ==
  LET item == project.children[k] IN
  IF args.use_priority
  THEN [project |-> [project EXCEPT
                       !.children[k].priority = PlainPriority,
                       !.unsorted_items[item.item_id].priority = PlainPriority],
        mod |-> [MakeNewMod(item) EXCEPT
                   !.args = @ @@ [priority |-> item.priority]]]
  ELSE LET labels == ListRemove(item.labels, next_action_id) IN
       [project |-> [project EXCEPT
                       !.children[k].labels = labels,
                       !.unsorted_items[item.item_id].labels = labels],
        mod |-> [MakeNewMod(item) EXCEPT !.args = @ @@ [labels |-> item.labels]]]

\* GetProjectMods, lines 307-315: the same for one item of remove_labels
RemoveLabel(project, k, next_action_id) ==
  LET item == project.children[k] IN
  IF args.use_priority
  THEN [project |-> [project EXCEPT
                       !.children[k].priority = PlainPriority,
                       !.unsorted_items[item.item_id].priority = PlainPriority],
        mod |-> [MakeNewMod(item) EXCEPT
                   !.args = @ @@ [priority |-> PlainPriority]]]
  ELSE LET labels == ListRemove(item.labels, next_action_id) IN
       [project |-> [project EXCEPT
                       !.children[k].labels = labels,
                       !.unsorted_items[item.item_id].labels = labels],
        mod |-> [MakeNewMod(item) EXCEPT !.args = @ @@ [labels |-> labels]]]

\* for item in state.add_labels / state.remove_labels: ...
RECURSIVE LabelsLoop(_, _, _, _)
LabelsLoop(r, items, adding, next_action_id) ==
  IF items = <<>> THEN r
  ELSE LET one == IF adding THEN AddLabel(r.project, Head(items), next_action_id)
                  ELSE RemoveLabel(r.project, Head(items), next_action_id)
       IN LabelsLoop([project |-> one.project, mods |-> Append(r.mods, one.mod)],
                     Tail(items), adding, next_action_id)

\* GetProjectMods, lines 280-316, for one project: [project, mods, state]
ProjectMods(project, next_action_id) ==
  LET st == Project_GetItemMods(project, TraversalState(next_action_id))
      added == LabelsLoop([project |-> project, mods |-> <<>>],
                          st.add_labels, TRUE, next_action_id)
      removed == LabelsLoop(added, st.remove_labels, FALSE, next_action_id)
  IN [project |-> removed.project, mods |-> removed.mods, state |-> st]

\* for project in self._projects.itervalues(), in ascending id (the order of
\* a dict of small ints)
RECURSIVE ProjectsLoop(_, _, _)
ProjectsLoop(ids, next_action_id, r) ==
  IF ids = {} THEN r
  ELSE LET i == CHOOSE x \in ids : \A y \in ids : x <= y
           one == ProjectMods(r.projects[i], next_action_id)
       IN ProjectsLoop(ids \ {i}, next_action_id,
            [projects |-> [r.projects EXCEPT ![i] = one.project],
             mods |-> r.mods \o one.mods,
             states |-> [r.states EXCEPT ![i] = one.state]])

\* lines 264-278: the label does not exist yet
NeedsLabel(next_action_id) == next_action_id = None /\ ~args.use_priority

LabelRegister ==
  [type |-> "label_register", temp_id |-> TempId,
   args |-> [name |-> NEXT_ACTION_LABEL]]

\* GetProjectMods that registers the label and goes on to the items at once
TodoistData_GetProjectMods_NoEarlyReturn(next_action_id, projects) ==
  LET id == IF NeedsLabel(next_action_id) THEN TempId ELSE next_action_id
      r == ProjectsLoop(DOMAIN projects, id,
             [projects |-> projects, mods |-> <<>>,
              states |-> [i \in DOMAIN projects |-> TraversalState(id)]])
  IN [next_action_id |-> id, projects |-> r.projects,
      mods |-> (IF NeedsLabel(next_action_id) THEN <<LabelRegister>> ELSE <<>>)
                 \o r.mods,
      states |-> r.states]

\* TodoistData.GetProjectMods: [next_action_id, projects, mods, states]
TodoistData_GetProjectMods(next_action_id, projects) ==
  IF NeedsLabel(next_action_id)
  THEN [next_action_id |-> TempId, projects |-> projects,
        mods |-> <<LabelRegister>>, states |-> EmptyDict]
  ELSE LET r == ProjectsLoop(DOMAIN projects, next_action_id,
                  [projects |-> projects, mods |-> <<>>,
                   states |-> [i \in DOMAIN projects |-> TraversalState(next_action_id)]])
       IN [next_action_id |-> next_action_id, projects |-> r.projects,
           mods |-> r.mods, states |-> r.states]

\* RemapId that forgets the id when the mapping of the delta does not hold it
RemapId_ForgetsUnmapped(next_action_id, data) ==
  IF "TempIdMapping" \in DOMAIN data
  THEN IF next_action_id \in DOMAIN data.TempIdMapping
       THEN data.TempIdMapping[next_action_id]
       ELSE None
  ELSE next_action_id

\* UpdateChangedData, lines 236-239
RemapId(next_action_id, data) ==
  IF "TempIdMapping" \in DOMAIN data
  THEN IF next_action_id \in DOMAIN data.TempIdMapping
       THEN data.TempIdMapping[next_action_id]
       ELSE next_action_id
  ELSE next_action_id

\* UpdateChangedData, lines 243-250, for one project record: the del raises
\* KeyError when the record has no key project_id or names no known project;
\* the upsert that follows is not an else branch of the deletion
UpdateProject(projects, project) ==
  LET deleted == project.is_deleted = 1
      raised == /\ deleted
                /\ \/ "project_id" \notin DOMAIN project
                   \/ project.project_id \notin DOMAIN projects
      kept == IF deleted /\ ~raised
              THEN [i \in (DOMAIN projects) \ {project.project_id} |-> projects[i]]
              ELSE projects
  IN [raised |-> raised,
      projects |->
        IF raised THEN projects
        ELSE IF project.id \in DOMAIN kept
        THEN [kept EXCEPT ![project.id] = Project_UpdateChangedData(@, project)]
        ELSE [i \in (DOMAIN kept) \cup {project.id} |->
                IF i = project.id THEN Project(project) ELSE kept[i]]]

\* UpdateChangedData, lines 253-257, for one item record: KeyError when the
\* project is unknown, or when the item to delete is not in its project
UpdateItem(projects, item) ==
  LET raised == \/ item.project_id \notin DOMAIN projects
                \/ /\ item.is_deleted = 1
                   /\ item.id \notin DOMAIN projects[item.project_id].unsorted_items
  IN [raised |-> raised,
      projects |->
        IF raised THEN projects
        ELSE IF item.is_deleted = 1
        THEN [projects EXCEPT ![item.project_id] = Project_DelItem(@, item)]
        ELSE [projects EXCEPT ![item.project_id] = Project_AddItem(@, item)]]

\* for project in changed_data['Projects'] / for item in changed_data['Items']
RECURSIVE RecordsLoop(_, _, _)
RecordsLoop(records, are_projects, r) ==
  IF records = <<>> \/ r.raised THEN r
  ELSE RecordsLoop(Tail(records), are_projects,
                   IF are_projects THEN UpdateProject(r.projects, Head(records))
                   ELSE UpdateItem(r.projects, Head(records)))

\* TodoistData.UpdateChangedData: [raised, next_action_id, projects]
TodoistData_UpdateChangedData(next_action_id, projects, data) ==
  LET start == [raised |-> FALSE, projects |-> projects]
      ps == IF "Projects" \in DOMAIN data
            THEN RecordsLoop(data.Projects, TRUE, start) ELSE start
      is == IF "Items" \in DOMAIN data
            THEN RecordsLoop(data.Items, FALSE, ps) ELSE ps
      built == BuildTrees(is.projects)
  IN [raised |-> is.raised \/ built.raised,
      next_action_id |-> RemapId(next_action_id, data),
      projects |-> IF is.raised THEN is.projects ELSE built.projects]

-----------------------------------------------------------------------------
(* The inputs: snapshots and deltas of the server *)

RealId == "L1"       \* the id the server gives the next_action label
OtherId == "L2"      \* the id of some other label
ProjectIds == {1, 2}
SequentialName == <<"p", "-", "-">>
ParallelName == <<"p", "=">>
PlainName == <<"p">>
ProjectNames == {SequentialName, ParallelName, PlainName}
PlainContent == <<"t">>
ParallelContent == <<"t", "=">>

ProjectRecord(id, name, is_deleted) ==
  [id |-> id, name |-> name, is_deleted |-> is_deleted]

\* an item as the server holds it; marked: it carries the marker of the mode
ItemRecord(id, project_id, item_order, shape) ==
  [id |-> id, project_id |-> project_id, item_order |-> item_order,
   indent |-> shape.indent, checked |-> shape.checked,
   content |-> IF shape.parallel THEN ParallelContent ELSE PlainContent,
   labels |-> IF shape.marked /\ ~args.use_priority
              THEN <<RealId, OtherId>> ELSE <<OtherId>>,
   priority |-> IF shape.marked /\ args.use_priority
                THEN MarkerPriority ELSE PlainPriority,
   is_deleted |-> 0]

Shapes(indents, checks, contents, markers) ==
  [indent : indents, checked : checks, parallel : contents, marked : markers]

\* indentation as the Todoist client produces it: the first item at level 1,
\* no item more than one level below its predecessor
WellIndented(shapes) ==
  /\ Len(shapes) > 0 => shapes[1].indent = 1
  /\ \A i \in 2..Len(shapes) : shapes[i].indent <= shapes[i - 1].indent + 1

LabelRecords(with_marker) ==
  <<[id |-> OtherId, name |-> "other"]>>
    \o (IF with_marker THEN <<[id |-> RealId, name |-> NEXT_ACTION_LABEL]>> ELSE <<>>)

\* the snapshot of one project whose items are listed by shape in item order;
\* ids descend as item_order ascends, so the sort by item_order shows
OneProjectSnapshot(name, shapes, with_marker) ==
  [Labels |-> LabelRecords(with_marker),
   Projects |-> <<ProjectRecord(1, name, 0)>>,
   Items |-> [i \in 1..Len(shapes) |->
                ItemRecord(Len(shapes) + 1 - i, 1, i, shapes[i])]]

\* the snapshots of Spec: project 1 under any name with up to MaxMirrorItems
\* plain items, with or without an empty project 2
MirrorSnapshots(with_marker) ==
  {[Labels |-> LabelRecords(with_marker),
    Projects |-> <<ProjectRecord(1, name, 0)>> \o second,
    Items |-> [i \in 1..Len(shapes) |-> ItemRecord(i, 1, i, shapes[i])]] :
     name \in ProjectNames,
     second \in {<<>>, <<ProjectRecord(2, SequentialName, 0)>>},
     shapes \in {sh \in UNION {[1..n -> Shapes(1..2, {0, 1}, {FALSE},
                                               IF with_marker THEN BOOLEAN ELSE {FALSE})] :
                               n \in 0..MaxMirrorItems} :
                   WellIndented(sh)}}

\* the item records a delta may carry: a known item checked, deleted or moved
\* to the other project; an item the mirror has never seen, new or deleted
KnownItems(projects) ==
  UNION {{projects[p].unsorted_items[i] : i \in DOMAIN projects[p].unsorted_items} :
           p \in DOMAIN projects}

UnseenItemId(projects) ==
  CHOOSE i \in 1..(Cardinality(KnownItems(projects)) + 1) :
    /\ \A old \in KnownItems(projects) : old.id # i
    /\ \A j \in 1..(i - 1) : \E old \in KnownItems(projects) : old.id = j

ItemDeltaRecords(projects) ==
  LET fresh == UnseenItemId(projects) IN
    {[old EXCEPT !.checked = 1] : old \in KnownItems(projects)}
      \cup {[old EXCEPT !.is_deleted = 1] : old \in KnownItems(projects)}
      \cup UNION {{[old EXCEPT !.project_id = q] : q \in ProjectIds \ {old.project_id}} :
                    old \in KnownItems(projects)}
      \cup {[ItemRecord(fresh, q, fresh,
                        [indent |-> 1, checked |-> 0, parallel |-> FALSE,
                         marked |-> FALSE])
               EXCEPT !.is_deleted = d] : q \in ProjectIds, d \in {0, 1}}

\* the project records a delta may carry: a project named anew (or new), or a
\* project deleted, the record with or without a key project_id
ProjectDeltaRecords(projects) ==
  {ProjectRecord(p, name, 0) : p \in ProjectIds, name \in ProjectNames}
    \cup UNION {{ProjectRecord(p, IF p \in DOMAIN projects THEN projects[p].name
                                  ELSE PlainName, 1) @@ extra :
                   extra \in {EmptyDict, [project_id |-> p]}} : p \in ProjectIds}

\* the deltas of Spec: nothing, an answer to the registration (with or
\* without the mapping of the temporary id), one project record or one item
\* record
Deltas(projects) ==
  {EmptyDict, [TempIdMapping |-> EmptyDict],
   [TempIdMapping |-> [t \in {TempId} |-> RealId]]}
    \cup {[Projects |-> <<project>>] : project \in ProjectDeltaRecords(projects)}
    \cup {[Items |-> <<item>>] : item \in ItemDeltaRecords(projects)}

\* the deltas of SpecChain: nothing, or one known item checked
CheckDeltas(projects) ==
  {EmptyDict}
    \cup {[Items |-> <<[old EXCEPT !.checked = 1]>>] : old \in KnownItems(projects)}

\* the snapshots of SpecMerge: as in Spec, one unmarked item at most
MergeSnapshots(with_marker) ==
  {data \in MirrorSnapshots(with_marker) :
     /\ Len(data.Items) <= 1
     /\ \A i \in 1..Len(data.Items) : data.Items[i] = [data.Items[i] EXCEPT !.checked = 0]}

\* the deltas of SpecMerge: two project records, two item records, or one of
\* each
PairDeltas(projects) ==
  {[Projects |-> <<a, b>>] : a, b \in ProjectDeltaRecords(projects)}
    \cup {[Items |-> <<a, b>>] : a, b \in ItemDeltaRecords(projects)}
    \cup {[Projects |-> <<a>>, Items |-> <<b>>] :
            a \in ProjectDeltaRecords(projects), b \in ItemDeltaRecords(projects)}

-----------------------------------------------------------------------------
(* main() *)

\* a = TodoistData(initial_data)
Construct ==
  /\ pc = "TodoistData"
  /\ \E a \in {TodoistData(initial_data)} :
       /\ _next_action_id' = a.next_action_id
       /\ _projects' = a.projects
       /\ pc' = IF a.raised THEN "crashed" ELSE "GetProjectMods"
  /\ UNCHANGED <<args, mods, initial_data, changed_data, states, syncs>>

\* mods = a.GetProjectMods()
GetProjectMods ==
  /\ pc = "GetProjectMods"
  /\ \E r \in {TodoistData_GetProjectMods(_next_action_id, _projects)} :
       /\ _next_action_id' = r.next_action_id
       /\ _projects' = r.projects
       /\ mods' = r.mods
       /\ states' = r.states
  /\ pc' = "DoSyncAndGetUpdated"
  /\ UNCHANGED <<args, initial_data, changed_data, syncs>>

\* changed_data = DoSyncAndGetUpdated(...): the server answers with a delta
Sync(deltas) ==
  /\ pc = "DoSyncAndGetUpdated"
  /\ syncs < MaxSyncs
  /\ changed_data' \in deltas
  /\ syncs' = syncs + 1
  /\ pc' = "UpdateChangedData"
  /\ UNCHANGED <<args, _next_action_id, _projects, mods, initial_data, states>>

DoSyncAndGetUpdated == Sync(Deltas(_projects))

\* the same when all that happens on the server is that the user checks items
DoSyncAndGetUpdated_Checks == Sync(CheckDeltas(_projects))

\* a.UpdateChangedData(changed_data)
UpdateChangedData ==
  /\ pc = "UpdateChangedData"
  /\ \E r \in {TodoistData_UpdateChangedData(_next_action_id, _projects, changed_data)} :
       /\ _next_action_id' = r.next_action_id
       /\ _projects' = r.projects
       /\ pc' = IF r.raised THEN "crashed" ELSE "GetProjectMods"
  /\ UNCHANGED <<args, mods, initial_data, changed_data, states, syncs>>

\* the state main() starts in once the arguments are parsed and the snapshot
\* is fetched
Start(snapshots) ==
  /\ initial_data \in snapshots
  /\ _next_action_id = None
  /\ _projects = EmptyDict
  /\ mods = <<>>
  /\ changed_data = EmptyDict
  /\ states = EmptyDict
  /\ pc = "TodoistData"
  /\ syncs = 0

Init ==
  /\ args \in [use_priority : BOOLEAN]
  /\ \E with_marker \in BOOLEAN :
       /\ args.use_priority => with_marker
       /\ Start(MirrorSnapshots(with_marker))

Next == Construct \/ GetProjectMods \/ DoSyncAndGetUpdated \/ UpdateChangedData

Spec == Init /\ [][Next]_vars

\* One project, items of every shape nested to MaxDepth, one traversal
InitTraversal ==
  /\ args \in [use_priority : BOOLEAN]
  /\ Start({OneProjectSnapshot(name, shapes, TRUE) :
              name \in ProjectNames,
              shapes \in {sh \in UNION {[1..n -> Shapes(1..MaxDepth, {0, 1}, BOOLEAN, BOOLEAN)] :
                                          n \in 0..MaxItems} :
                            WellIndented(sh)}})

NextTraversal == Construct \/ GetProjectMods

SpecTraversal == InitTraversal /\ [][NextTraversal]_vars

\* One project of plain items nested to any depth, the user checking items
InitChain ==
  /\ args \in [use_priority : BOOLEAN]
  /\ Start({OneProjectSnapshot(name, shapes, TRUE) :
              name \in ProjectNames,
              shapes \in {sh \in UNION {[1..n -> Shapes(1..MaxChainItems, {0, 1},
                                                        {FALSE}, BOOLEAN)] :
                                          n \in 0..MaxChainItems} :
                            WellIndented(sh)}})

NextChain ==
  Construct \/ GetProjectMods \/ DoSyncAndGetUpdated_Checks \/ UpdateChangedData

SpecChain == InitChain /\ [][NextChain]_vars

\* The first pass of the loop of main(), the delta carrying two records
DoSyncAndGetUpdated_Pairs ==
  /\ syncs = 0
  /\ Sync(PairDeltas(_projects))

InitMerge ==
  /\ args \in [use_priority : BOOLEAN]
  /\ Start(MergeSnapshots(TRUE))

NextMerge ==
  Construct \/ GetProjectMods \/ DoSyncAndGetUpdated_Pairs \/ UpdateChangedData

SpecMerge == InitMerge /\ [][NextMerge]_vars

\* One project, items of any indent from 0 to MaxIndent, the tree built
InitTree ==
  /\ args = [use_priority |-> FALSE]
  /\ Start({OneProjectSnapshot(SequentialName, shapes, TRUE) :
              shapes \in UNION {[1..n -> Shapes(0..MaxIndent, {0}, {FALSE}, {FALSE})] :
                                  n \in 0..MaxTreeItems}})

NextTree == Construct

SpecTree == InitTree /\ [][NextTree]_vars

\* The same snapshots, then the first pass of the loop of main(): the trees
\* are built again after a delta
DoSyncAndGetUpdated_Once ==
  /\ syncs = 0
  /\ Sync(Deltas(_projects))

NextRebuild ==
  Construct \/ GetProjectMods \/ DoSyncAndGetUpdated_Once \/ UpdateChangedData

SpecRebuild == InitTree /\ [][NextRebuild]_vars

-----------------------------------------------------------------------------
(* Properties of the item tree *)

\* the nearest node before k whose indent is strictly smaller, Root if none
NearestShallower(children, k) ==
  LET shallower == {j \in 1..(k - 1) : children[j].indent < children[k].indent}
  IN IF shallower = {} THEN Root
     ELSE CHOOSE j \in shallower : \A i \in shallower : i <= j

\* every record of unsorted_items has its Item object, in item order
TreeHoldsItems(project) ==
  /\ Len(project.children) = Cardinality(DOMAIN project.unsorted_items)
  /\ \A k \in 1..Len(project.children) :
       project.children[k].item_id = SortedItems(project.unsorted_items)[k].id

\* C9: for every ordered item list with non-negative indents, indent 0 and
\* skipped levels included, BuildItemTree completes without error and attaches
\* each item as the last child of the nearest preceding item of strictly
\* smaller indent, or of the project when there is none.
C9_BuildItemTreeAnyIndent ==
  pc # "TodoistData" =>
    /\ pc # "crashed"
    /\ \A p \in DOMAIN _projects :
         /\ TreeHoldsItems(_projects[p])
         /\ \A k \in 1..Len(_projects[p].children) :
              _projects[p].children[k].parent = NearestShallower(_projects[p].children, k)

-----------------------------------------------------------------------------
(* Properties of one traversal *)

\* the item carries the marker of the mode
Carries(item, next_action_id) ==
  IF args.use_priority THEN item.priority = MarkerPriority
  ELSE next_action_id \in Range(item.labels)

Marked(project, next_action_id) ==
  {k \in 1..Len(project.children) : Carries(project.children[k], next_action_id)}

NoneMode(project) == ~Project_IsSequential(project) /\ ~Project_IsParallel(project)

\* node j is node k or one of its descendants
RECURSIVE InSubtree(_, _, _)
InSubtree(children, j, k) ==
  \/ j = k
  \/ j # Root /\ InSubtree(children, children[j].parent, k)

Branch(children, k) == {j \in 1..Len(children) : InSubtree(children, j, k)}

\* a traversal is about to run over the trees of _projects
Traversing == pc = "GetProjectMods" /\ ~NeedsLabel(_next_action_id)

\* every item of the project is an unchecked, unmarked child of the project
FreshChain(project, next_action_id) ==
  /\ Len(project.children) >= 1
  /\ \A k \in 1..Len(project.children) :
       /\ project.children[k].parent = Root
       /\ ~project.children[k].checked
       /\ ~Carries(project.children[k], next_action_id)

\* C1: in a sequential project whose children are N >= 1 unchecked leaf items,
\* none carrying the marker, one traversal yields add = [the first item in
\* list order] and remove = []; no other item is in either list.
C1_SequentialChainAddsFirst ==
  [][Traversing =>
       \A p \in DOMAIN _projects :
         (Project_IsSequential(_projects[p]) /\ FreshChain(_projects[p], _next_action_id))
           => /\ states'[p].add_labels = <<1>>
              /\ states'[p].remove_labels = <<>>]_vars

\* a chain of three was traversed: the first item alone was added and marked
C1_Witness ==
  /\ pc = "DoSyncAndGetUpdated"
  /\ 1 \in DOMAIN _projects
  /\ Project_IsSequential(_projects[1])
  /\ Len(_projects[1].children) = 3
  /\ \A k \in 1..3 : _projects[1].children[k].parent = Root
                     /\ ~_projects[1].children[k].checked
  /\ states[1].add_labels = <<1>>
  /\ states[1].remove_labels = <<>>
  /\ Marked(_projects[1], _next_action_id) = {1}
  /\ Len(mods) = 1

\* node k (Root: the project) hands each of its children a clone of its state
ParallelNode(project, k) ==
  IF k = Root THEN ~Project_IsSequential(project) /\ Project_IsParallel(project)
  ELSE Item_IsParallel(project.children[k])

\* the ids of the entries of a list that lie in the branch of item id
BranchEntries(children, entries, id) ==
  LET c == CHOOSE k \in 1..Len(children) : children[k].item_id = id
      Inside(k) == InSubtree(children, k, c)
      kept == SelectSeq(entries, Inside)
  IN [i \in 1..Len(kept) |-> children[kept[i]].item_id]

BranchMods(children, st, id) ==
  [add |-> BranchEntries(children, st.add_labels, id),
   remove |-> BranchEntries(children, st.remove_labels, id)]

\* the forest with item x checked if it was not, and unchecked if it was
FlipChecked(children, x) == [children EXCEPT ![x].checked = ~@]

\* the forest with the marker put on item x if it had none, taken off if not
FlipMarker(children, x, next_action_id) ==
  IF args.use_priority
  THEN [children EXCEPT ![x].priority =
          IF @ = MarkerPriority THEN PlainPriority ELSE MarkerPriority]
  ELSE [children EXCEPT ![x].labels =
          IF next_action_id \in Range(@) THEN ListRemove(@, next_action_id)
          ELSE Append(@, next_action_id)]

\* the forest without the descendants of item s
Prune(children, s) ==
  LET gone == Branch(children, s) \ {s}
      Stays(i) == i \notin gone
      kept == SelectSeq([i \in 1..Len(children) |-> i], Stays)
      Moved(j) == Cardinality({i \in 1..j : i \notin gone})
  IN [i \in 1..Len(kept) |->
        [children[kept[i]] EXCEPT !.parent = IF @ = Root THEN Root ELSE Moved(@)]]

\* the forests that differ from this one in the branch of item s only
SiblingVariants(children, s, next_action_id) ==
  {FlipChecked(children, x) : x \in Branch(children, s)}
    \cup {FlipMarker(children, x, next_action_id) : x \in Branch(children, s)}
    \cup {Prune(children, s)}

\* C3: under a parallel node (project or item), the add/remove entries of one
\* child's branch are the same in two runs that differ only in the checked
\* state, the marker or the subtree of a sibling, whichever comes first.
C3_ParallelSiblingsIndependent ==
  [][Traversing =>
       \A p \in DOMAIN _projects :
         LET project == _projects[p]
             items == project.children
         IN \A k \in 0..Len(items) :
              ParallelNode(project, k) =>
                \A c \in Range(Children(items, k)) :
                  \A s \in Range(Children(items, k)) \ {c} :
                    \A other \in SiblingVariants(items, s, _next_action_id) :
                      BranchMods(items, states'[p], items[c].item_id)
                        = BranchMods(other,
                            Project_GetItemMods([project EXCEPT !.children = other],
                                                TraversalState(_next_action_id)),
                            items[c].item_id)]_vars

\* a parallel project was traversed: its first child and a later child, which
\* has a child of its own, were both added
C3_Witness ==
  /\ pc = "DoSyncAndGetUpdated"
  /\ 1 \in DOMAIN states
  /\ Project_IsParallel(_projects[1])
  /\ Len(_projects[1].children) = 3
  /\ _projects[1].children[2].parent = Root
  /\ _projects[1].children[3].parent = 2
  /\ _projects[1].children[3].checked
  /\ states[1].add_labels = <<1, 2>>

\* no parallel item of the branch of node c has two children or more
ChainBranch(children, c) ==
  \A j \in Branch(children, c) :
    Item_IsParallel(children[j]) => Len(Children(children, j)) <= 1

AddedIn(st, nodes) == {i \in 1..Len(st.add_labels) : st.add_labels[i] \in nodes}

\* a traversal has run and its changes are applied
Traversed == pc = "DoSyncAndGetUpdated"

\* C4 as stated: in a parallel project each child branch, of any nesting and
\* any sequential/parallel mix, contributes at most one item to add, and after
\* the cycle at most one item of each child branch carries the marker.
C4_OneAddPerBranch_AnyMix ==
  Traversed =>
    \A p \in DOMAIN states :
      ParallelNode(_projects[p], Root) =>
        \A c \in Range(Children(_projects[p].children, Root)) :
          LET branch == Branch(_projects[p].children, c) IN
            /\ Cardinality(AddedIn(states[p], branch)) <= 1
            /\ Cardinality(Marked(_projects[p], _next_action_id) \cap branch) <= 1

\* C4 amended: the same for each child branch in which no parallel item has
\* more than one child.
C4_OneAddPerChainBranch ==
  Traversed =>
    \A p \in DOMAIN states :
      ParallelNode(_projects[p], Root) =>
        \A c \in Range(Children(_projects[p].children, Root)) :
          LET branch == Branch(_projects[p].children, c) IN
            ChainBranch(_projects[p].children, c) =>
              /\ Cardinality(AddedIn(states[p], branch)) <= 1
              /\ Cardinality(Marked(_projects[p], _next_action_id) \cap branch) <= 1

\* a parallel project with two branches was traversed; the nested branch got
\* one add, on its unchecked leaf, and lost the marker its parent carried
C4_Witness ==
  /\ Traversed
  /\ 1 \in DOMAIN states
  /\ ParallelNode(_projects[1], Root)
  /\ Len(_projects[1].children) = 3
  /\ _projects[1].children[2].parent = 1
  /\ _projects[1].children[3].parent = Root
  /\ states[1].add_labels = <<2, 3>>
  /\ states[1].remove_labels = <<1>>
  /\ Marked(_projects[1], _next_action_id) = {2, 3}

-----------------------------------------------------------------------------
(* Properties of the sync cycles *)

ItemUpdates(ops) == {i \in 1..Len(ops) : ops[i].type = "item_update"}

\* some item of the mirror has label id among its labels
LabelInMirror(id) ==
  \E p \in DOMAIN _projects :
    \E i \in DOMAIN _projects[p].unsorted_items :
      id \in Range(_projects[p].unsorted_items[i].labels)

\* C6: in label mode with the marker label id unresolved, GetProjectMods
\* returns exactly one operation, a label_register with a temp_id, no
\* item_update, and changes nothing in the local mirror.
C6_HandshakeOnly ==
  [][(pc = "GetProjectMods" /\ ~args.use_priority /\ _next_action_id = None) =>
       /\ Len(mods') = 1
       /\ mods'[1].type = "label_register"
       /\ "temp_id" \in DOMAIN mods'[1]
       /\ ItemUpdates(mods') = {}
       /\ _projects' = _projects]_vars

\* the label was registered while a sequential project held two unchecked
\* items, the first of which a traversal would have marked
C6_Witness ==
  /\ pc = "DoSyncAndGetUpdated"
  /\ mods = <<LabelRegister>>
  /\ _next_action_id = TempId
  /\ 1 \in DOMAIN _projects
  /\ Project_IsSequential(_projects[1])
  /\ Len(_projects[1].children) = 2
  /\ \A k \in 1..2 : ~_projects[1].children[k].checked
  /\ ~LabelInMirror(TempId)

\* C7: in label mode no item_update is produced, and no item of the mirror
\* is given a marker label, until a delta whose TempIdMapping resolves the
\* registered temporary id has been merged; no item_update ever carries the
\* temporary id in its labels.
C7_NoItemUpdateBeforeRealId ==
  ~args.use_priority =>
    /\ _next_action_id \in {None, TempId} =>
         /\ ItemUpdates(mods) = {}
         /\ ~LabelInMirror(TempId)
    /\ \A i \in ItemUpdates(mods) : TempId \notin Range(mods[i].args.labels)

\* the marker id is a real one
Resolved == args.use_priority \/ _next_action_id \notin {None, TempId}

\* the delta changes no project and no item
Quiet(data) ==
  /\ "Projects" \in DOMAIN data => data.Projects = <<>>
  /\ "Items" \in DOMAIN data => data.Items = <<>>

\* the last GetProjectMods traversed the trees, with the marker id of now
SettledBefore ==
  /\ syncs >= 1
  /\ \A i \in 1..Len(mods) : mods[i].type # "label_register"
  /\ \A p \in DOMAIN states : states[p].next_action_label_id = _next_action_id

\* C8: once the marker is resolved, if GetProjectMods has run and
\* UpdateChangedData has merged a delta that changes no project and no item,
\* the next GetProjectMods returns an empty list, in either marker mode.
C8_SecondCycleEmpty ==
  [][(pc = "GetProjectMods" /\ Resolved /\ SettledBefore /\ Quiet(changed_data))
       => mods' = <<>>]_vars

\* the second GetProjectMods after a quiet delta returned nothing, although
\* the first had to mark item 1 of the snapshot
C8_Witness ==
  /\ pc = "DoSyncAndGetUpdated"
  /\ syncs = 1
  /\ Resolved
  /\ Quiet(changed_data)
  /\ mods = <<>>
  /\ 1 \in DOMAIN _projects
  /\ Len(initial_data.Items) >= 1
  /\ ~Carries(Item(initial_data.Items[1]), _next_action_id)
  /\ Marked(_projects[1], _next_action_id) = {1}

\* the node of the project that was built from the record of item id
NodeOf(project, id) ==
  CHOOSE k \in 1..Len(project.children) : project.children[k].item_id = id

\* the delta merged last did one thing: it checked the one item of project p
\* that carried the marker when the trees were last traversed
CheckedTheMarked(p) ==
  /\ pc = "GetProjectMods"
  /\ SettledBefore
  /\ p \in DOMAIN _projects
  /\ p \in DOMAIN states
  /\ DOMAIN changed_data = {"Items"}
  /\ Len(changed_data.Items) = 1
  /\ LET item == changed_data.Items[1] IN
       /\ item.checked = 1
       /\ item.is_deleted = 0
       /\ item.project_id = p
       /\ \A q \in DOMAIN _projects \ {p} : item.id \notin DOMAIN _projects[q].unsorted_items
       /\ Marked(_projects[p], _next_action_id) = {NodeOf(_projects[p], item.id)}

\* the unchecked nodes of the project from node k on, in list order
UncheckedFrom(project, k) ==
  {j \in k..Len(project.children) : ~project.children[j].checked}

First(nodes) == CHOOSE j \in nodes : \A i \in nodes : j <= i

\* the old item is removed and the items of `added`, if any, are the one
\* item added and the one item marked afterwards
MarkerMovesTo(p, k, added) ==
  /\ states'[p].remove_labels = <<k>>
  /\ IF added = {} THEN states'[p].add_labels = <<>>
     ELSE \E j \in added : states'[p].add_labels = <<j>>
  /\ Marked(_projects'[p], _next_action_id') = Range(states'[p].add_labels)

\* C2 as stated: in a sequential project in a settled state, when a delta
\* checks the marked item and GetProjectMods runs again, the old item is in
\* remove and the next unchecked item in list order is in add and alone
\* marked afterwards; add is empty if no unchecked item remains.  "Next in
\* list order" is taken as the first unchecked item after the old one or,
\* failing that reading, the first unchecked item of the list.
C2_MarkerMovesInListOrder ==
  [][\A p \in ProjectIds :
       (CheckedTheMarked(p) /\ Project_IsSequential(_projects[p])) =>
         LET k == NodeOf(_projects[p], changed_data.Items[1].id)
             after == UncheckedFrom(_projects[p], k + 1)
             all == UncheckedFrom(_projects[p], 1)
         IN MarkerMovesTo(p, k, (IF after = {} THEN {} ELSE {First(after)})
                                  \cup (IF all = {} THEN {} ELSE {First(all)}))]_vars

\* C2 amended: the same in a sequential project none of whose items is nested
\* under another; the next unchecked item is the first one after the old item.
C2_MarkerMovesInFlatChain ==
  [][\A p \in ProjectIds :
       (/\ CheckedTheMarked(p)
        /\ Project_IsSequential(_projects[p])
        /\ \A k \in 1..Len(_projects[p].children) : _projects[p].children[k].parent = Root)
         => LET k == NodeOf(_projects[p], changed_data.Items[1].id)
                after == UncheckedFrom(_projects[p], k + 1)
            IN MarkerMovesTo(p, k, IF after = {} THEN {} ELSE {First(after)})]_vars

\* the first item of a flat sequential project of three was checked by the
\* delta and the next traversal moved the marker from it to the second
C2_Witness ==
  /\ pc = "DoSyncAndGetUpdated"
  /\ syncs = 1
  /\ 1 \in DOMAIN states
  /\ Project_IsSequential(_projects[1])
  /\ DOMAIN changed_data = {"Items"}
  /\ changed_data.Items[1].checked = 1
  /\ Len(_projects[1].children) = 3
  /\ \A k \in 1..3 : _projects[1].children[k].parent = Root
  /\ _projects[1].children[1].item_id = changed_data.Items[1].id
  /\ ~_projects[1].children[3].checked
  /\ states[1].remove_labels = <<1>>
  /\ states[1].add_labels = <<2>>
  /\ Marked(_projects[1], _next_action_id) = {2}
  /\ Len(mods) = 2

\* the last item of such a project was checked: it lost the marker and no
\* item gained it
C2_WitnessLast ==
  /\ pc = "DoSyncAndGetUpdated"
  /\ syncs = 1
  /\ 1 \in DOMAIN states
  /\ Project_IsSequential(_projects[1])
  /\ Len(_projects[1].children) = 2
  /\ states[1].remove_labels = <<2>>
  /\ states[1].add_labels = <<>>

\* the delta deletes a project or an item that the mirror does not hold
DeletesUnknown(data) ==
  \/ /\ DOMAIN data = {"Projects"}
     /\ Len(data.Projects) = 1
     /\ data.Projects[1].is_deleted = 1
     /\ data.Projects[1].id \notin DOMAIN _projects
  \/ /\ DOMAIN data = {"Items"}
     /\ Len(data.Items) = 1
     /\ data.Items[1].is_deleted = 1
     /\ \A p \in DOMAIN _projects :
          data.Items[1].id \notin DOMAIN _projects[p].unsorted_items

\* C10: UpdateChangedData given a delta that marks as deleted a project id or
\* an item id that is not in the local mirror completes without error and
\* leaves the project map and every project's item set unchanged.
C10_DeleteUnknownIsNoOp ==
  [][(pc = "UpdateChangedData" /\ DeletesUnknown(changed_data)) =>
       /\ pc' # "crashed"
       /\ DOMAIN _projects' = DOMAIN _projects
       /\ \A p \in DOMAIN _projects :
            _projects'[p].unsorted_items = _projects[p].unsorted_items]_vars

\* the ids of the items the mirror holds, in any project
ItemIds(projects) ==
  UNION {DOMAIN projects[p].unsorted_items : p \in DOMAIN projects}

\* the delta carries one record, not deleted, of a project or of an item that
\* the mirror does not hold
UpsertsUnknown(data) ==
  \/ /\ DOMAIN data = {"Projects"}
     /\ Len(data.Projects) = 1
     /\ data.Projects[1].is_deleted = 0
     /\ data.Projects[1].id \notin DOMAIN _projects
  \/ /\ DOMAIN data = {"Items"}
     /\ Len(data.Items) = 1
     /\ data.Items[1].is_deleted = 0
     /\ data.Items[1].id \notin ItemIds(_projects)

\* C11: UpdateChangedData given a record, not deleted, of a project id or an
\* item id that is not in the local mirror creates that project or item and
\* does not fail, also when the item's project_id names a project that is not
\* in the mirror.
C11_UpsertUnknownCreates ==
  [][(pc = "UpdateChangedData" /\ UpsertsUnknown(changed_data)) =>
       /\ pc' # "crashed"
       /\ "Projects" \in DOMAIN changed_data =>
            changed_data.Projects[1].id \in DOMAIN _projects'
       /\ "Items" \in DOMAIN changed_data =>
            changed_data.Items[1].id \in ItemIds(_projects')]_vars

\* the delta carries one record, marked deleted, of a project the mirror holds
DeletesKnownProject(data) ==
  /\ DOMAIN data = {"Projects"}
  /\ Len(data.Projects) = 1
  /\ data.Projects[1].is_deleted = 1
  /\ data.Projects[1].id \in DOMAIN _projects

\* C12: after UpdateChangedData has merged a delta in which the record of a
\* known project has is_deleted = 1, that project id is absent from the
\* project map (so that no later cycle can emit an operation for its items).
C12_DeletedProjectIsForgotten ==
  [][(pc = "UpdateChangedData" /\ DeletesKnownProject(changed_data) /\ pc' # "crashed")
       => changed_data.Projects[1].id \notin DOMAIN _projects']_vars

\* the operation that carries the id of node k of the project and the value
\* the node holds in the field of the marker
FullValueOp(project, k) ==
  [type |-> "item_update",
   args |-> IF args.use_priority
            THEN [id |-> project.children[k].item_id,
                  priority |-> project.children[k].priority]
            ELSE [id |-> project.children[k].item_id,
                  labels |-> project.children[k].labels]]

\* such operations for the projects of ids, in ascending id: the items of
\* add_labels, then those of remove_labels
RECURSIVE FullValueOps(_)
FullValueOps(ids) ==
  IF ids = {} THEN <<>>
  ELSE LET p == CHOOSE x \in ids : \A y \in ids : x <= y
           nodes == states[p].add_labels \o states[p].remove_labels
       IN [i \in 1..Len(nodes) |-> FullValueOp(_projects[p], nodes[i])]
            \o FullValueOps(ids \ {p})

\* the record of unsorted_items holds what the Item object holds
RecordAgrees(project, k) ==
  LET item == project.children[k]
      record == project.unsorted_items[item.item_id]
  IN record.labels = item.labels /\ record.priority = item.priority

\* a remote store of the items the operations name, and what an item_update
\* does to it: it sets the fields the operation carries
RemoteStore(ops) ==
  [id \in {ops[i].args.id : i \in ItemUpdates(ops)} |->
     [labels |-> <<OtherId>>, priority |-> PlainPriority]]

RECURSIVE ApplyOps(_, _)
ApplyOps(store, ops) ==
  IF ops = <<>> THEN store
  ELSE LET op == Head(ops) IN
       ApplyOps(IF op.type = "item_update"
                THEN [store EXCEPT ![op.args.id] =
                        [f \in DOMAIN @ |-> IF f \in DOMAIN op.args
                                            THEN op.args[f] ELSE @[f]]]
                ELSE store,
                Tail(ops))

IsItemUpdate(op) == op.type = "item_update"

\* C13: every item_update that GetProjectMods returns carries the item id and
\* the whole resulting value of the changed field (the label list, or the
\* priority: 4 on add, 1 on remove), which is the value the mirror holds for
\* the item after the cycle; a remote store is the same after the operations
\* of a cycle are applied to it twice as after they are applied once.
C13_OperationsCarryFullValue ==
  Traversed =>
    /\ SelectSeq(mods, IsItemUpdate) = FullValueOps(DOMAIN states)
    /\ \A p \in DOMAIN states :
         \A k \in Range(states[p].add_labels) \cup Range(states[p].remove_labels) :
           RecordAgrees(_projects[p], k)
    /\ args.use_priority =>
         \A p \in DOMAIN states :
           /\ \A k \in Range(states[p].add_labels) :
                _projects[p].children[k].priority = MarkerPriority
           /\ \A k \in Range(states[p].remove_labels) :
                _projects[p].children[k].priority = PlainPriority
    /\ ApplyOps(ApplyOps(RemoteStore(mods), mods), mods)
         = ApplyOps(RemoteStore(mods), mods)

\* a cycle in label mode took the marker off the checked first item and put
\* it on the second: two operations, each with the whole label list
C13_Witness ==
  /\ Traversed
  /\ ~args.use_priority
  /\ 1 \in DOMAIN states
  /\ states[1].add_labels = <<2>>
  /\ states[1].remove_labels = <<1>>
  /\ Len(mods) = 2
  /\ mods[1].args = [id |-> _projects[1].children[2].item_id,
                     labels |-> <<OtherId, _next_action_id>>]
  /\ mods[2].args = [id |-> _projects[1].children[1].item_id,
                     labels |-> <<OtherId>>]

RECURSIVE Reversed(_)
Reversed(s) == IF s = <<>> THEN <<>> ELSE Append(Reversed(Tail(s)), Head(s))

\* the payloads that hold the records of this one, the Projects list or the
\* Items list or both in another order
Reordered(data) ==
  {[k \in DOMAIN data |-> IF k \in flipped THEN Reversed(data[k]) ELSE data[k]] :
     flipped \in SUBSET (DOMAIN data \cap {"Projects", "Items"})}

\* C14: within one delta the changes take effect in the order remapping,
\* project deletions, project upserts, item deletions, item upserts, whatever
\* the order of the records in the lists Projects and Items: the merge ends
\* the same way, with the same mirror, for every order of the records.
C14_MergeIgnoresRecordOrder ==
  [][pc = "UpdateChangedData" =>
       \A other \in Reordered(changed_data) :
         LET r == TodoistData_UpdateChangedData(_next_action_id, _projects, other)
         IN /\ r.raised = (pc' = "crashed")
            /\ ~r.raised => /\ r.projects = _projects'
                            /\ r.next_action_id = _next_action_id']_vars

-----------------------------------------------------------------------------
(* Properties of the marker after a cycle *)

\* the nodes below node k (Root: all nodes) in post-order: the children in
\* list order, each after its own descendants, then k itself
RECURSIVE PostOrder(_, _)
RECURSIVE PostOrderOf(_, _)
PostOrderOf(children, kids) ==
  IF kids = <<>> THEN <<>>
  ELSE PostOrder(children, Head(kids)) \o PostOrderOf(children, Tail(kids))

PostOrder(children, k) ==
  PostOrderOf(children, Children(children, k)) \o (IF k = Root THEN <<>> ELSE <<k>>)

\* the first unchecked node of a list of nodes, as a set of one node at most
FirstUnchecked(children, order) ==
  LET open == {i \in 1..Len(order) : ~children[order[i]].checked}
  IN IF open = {} THEN {} ELSE {order[First(open)]}

AllSequential(project) ==
  \A k \in 1..Len(project.children) : Item_IsSequential(project.children[k])

\* C15: in a sequential project all of whose items are sequential, nested to
\* any depth, after one GetProjectMods cycle exactly one item carries the
\* marker when an item is unchecked, the first unchecked item in post-order,
\* and no item carries it when all items are checked.
C15_FirstUncheckedInPostOrder ==
  Traversed =>
    \A p \in DOMAIN states :
      (Project_IsSequential(_projects[p]) /\ AllSequential(_projects[p])) =>
        Marked(_projects[p], _next_action_id)
          = FirstUnchecked(_projects[p].children,
                           PostOrder(_projects[p].children, Root))

\* a sequential project was traversed whose checked first item carried the
\* marker and whose unchecked second item has an unchecked child: the child,
\* not its parent, carries the marker now
C15_Witness ==
  /\ Traversed
  /\ 1 \in DOMAIN states
  /\ Project_IsSequential(_projects[1])
  /\ Len(_projects[1].children) = 3
  /\ _projects[1].children[1].checked
  /\ ~_projects[1].children[2].checked
  /\ ~_projects[1].children[3].checked
  /\ _projects[1].children[3].parent = 2
  /\ states[1].add_labels = <<3>>
  /\ states[1].remove_labels = <<1>>
  /\ Marked(_projects[1], _next_action_id) = {3}

\* C16: in every traversal of a sequential or parallel project, in both
\* marker modes, no checked item is placed in add and every checked item that
\* carries the marker is placed in remove, so that after the cycle no checked
\* item of the project carries the marker.
C16_CheckedNeverMarked ==
  [][Traversing =>
       \A p \in DOMAIN _projects :
         (Project_IsSequential(_projects[p]) \/ Project_IsParallel(_projects[p])) =>
           \A k \in 1..Len(_projects[p].children) :
             _projects[p].children[k].checked =>
               /\ k \notin Range(states'[p].add_labels)
               /\ Carries(_projects[p].children[k], _next_action_id)
                    => k \in Range(states'[p].remove_labels)
               /\ ~Carries(_projects'[p].children[k], _next_action_id')]_vars

\* in priority mode a checked item that carried the marker lost it, and its
\* unchecked child gained it
C16_Witness ==
  /\ Traversed
  /\ args.use_priority
  /\ 1 \in DOMAIN states
  /\ Project_IsParallel(_projects[1])
  /\ Len(_projects[1].children) >= 2
  /\ _projects[1].children[1].checked
  /\ _projects[1].children[2].parent = 1
  /\ ~_projects[1].children[2].checked
  /\ 1 \in Range(states[1].remove_labels)
  /\ 2 \in Range(states[1].add_labels)
  /\ _projects[1].children[1].priority = PlainPriority
  /\ _projects[1].children[2].priority = MarkerPriority

\* C17: after any sequence of merged deltas each item id is held in the item
\* set of one project at most, the one its record names (an upsert of a known
\* item with another project_id moves the item), and no cycle emits two
\* item_update operations for one item id.
C17_ItemInOneProject ==
  /\ \A p \in DOMAIN _projects :
       \A i \in DOMAIN _projects[p].unsorted_items :
         /\ _projects[p].unsorted_items[i].project_id = p
         /\ \A q \in DOMAIN _projects \ {p} : i \notin DOMAIN _projects[q].unsorted_items
  /\ \A i, j \in ItemUpdates(mods) : mods[i].args.id = mods[j].args.id => i = j

-----------------------------------------------------------------------------
(* Properties of the marker id *)

Registrations(ops) == {i \in 1..Len(ops) : ops[i].type = "label_register"}

\* the snapshot lists a label named next_action
SnapshotHasLabel ==
  \E i \in 1..Len(initial_data.Labels) : initial_data.Labels[i].name = NEXT_ACTION_LABEL

\* C18: over the cycles of a session one label_register is emitted at most
\* (it is emitted only while the marker id is unset, and sets it for good),
\* none when the snapshot holds the next_action label or in priority mode;
\* once set, the marker id changes only through the entry of a TempIdMapping
\* for the current id.
C18_RegistersOnce ==
  [][/\ (pc = "GetProjectMods" /\ Registrations(mods') # {}) =>
          /\ Cardinality(Registrations(mods')) = 1
          /\ _next_action_id = None
          /\ _next_action_id' # None
          /\ ~args.use_priority
          /\ ~SnapshotHasLabel
     /\ _next_action_id # None =>
          /\ _next_action_id' # None
          /\ _next_action_id' # _next_action_id =>
               /\ pc = "UpdateChangedData"
               /\ "TempIdMapping" \in DOMAIN changed_data
               /\ _next_action_id \in DOMAIN changed_data.TempIdMapping
               /\ _next_action_id' = changed_data.TempIdMapping[_next_action_id]]_vars

\* the label was registered in the first cycle, the delta resolved the
\* temporary id, and the second cycle marked an item under the real id
\* without registering anything
C18_Witness ==
  /\ pc = "DoSyncAndGetUpdated"
  /\ syncs = 1
  /\ ~args.use_priority
  /\ ~SnapshotHasLabel
  /\ changed_data = [TempIdMapping |-> [t \in {TempId} |-> RealId]]
  /\ _next_action_id = RealId
  /\ Registrations(mods) = {}
  /\ ItemUpdates(mods) # {}
  /\ LabelInMirror(RealId)

-----------------------------------------------------------------------------
(* Properties of the rebuilt tree *)

\* the nodes below node k (Root: all nodes) in pre-order: k itself, then the
\* children in list order, each before its own descendants
RECURSIVE PreOrder(_, _)
RECURSIVE PreOrderOf(_, _)
PreOrderOf(children, kids) ==
  IF kids = <<>> THEN <<>>
  ELSE PreOrder(children, Head(kids)) \o PreOrderOf(children, Tail(kids))

PreOrder(children, k) ==
  (IF k = Root THEN <<>> ELSE <<k>>) \o PreOrderOf(children, Children(children, k))

\* item_order of the record from which node k was built
OrderOf(project, k) == project.unsorted_items[project.children[k].item_id].item_order

\* C19: for every item set whose indents are all at least 1, after
\* BuildItemTree every item of the flat item set appears exactly once in the
\* tree, every item's indent is greater than its parent's (the project
\* counting as 0), every parent is a node of the tree, and a pre-order walk
\* visits the items in ascending item_order; the tree of the build before is
\* discarded, not extended.
C19_TreeIsTheItemSet ==
  pc \in {"GetProjectMods", "DoSyncAndGetUpdated", "UpdateChangedData"} =>
    \A p \in DOMAIN _projects :
      LET project == _projects[p]
          walk == PreOrder(project.children, Root)
      IN (\A i \in DOMAIN project.unsorted_items : project.unsorted_items[i].indent >= 1) =>
           /\ TreeHoldsItems(project)
           /\ \A k \in 1..Len(project.children) :
                /\ project.children[k].parent \in 0..(k - 1)
                /\ project.children[k].indent
                     > IndentOf(project.children, project.children[k].parent)
           /\ Len(walk) = Len(project.children)
           /\ Range(walk) = 1..Len(project.children)
           /\ \A i \in 1..(Len(walk) - 1) :
                OrderOf(project, walk[i]) < OrderOf(project, walk[i + 1])

\* the delta deleted the last of five items and the tree was built again:
\* it holds the four items that are left, the second and third under the
\* first
C19_Witness ==
  /\ pc = "GetProjectMods"
  /\ syncs = 1
  /\ DOMAIN changed_data = {"Items"}
  /\ changed_data.Items[1].is_deleted = 1
  /\ Len(initial_data.Items) = 5
  /\ 1 \in DOMAIN _projects
  /\ Len(_projects[1].children) = 4
  /\ [k \in 1..4 |-> _projects[1].children[k].parent] = <<0, 1, 1, 0>>
  /\ [k \in 1..4 |-> _projects[1].children[k].indent] = <<1, 2, 2, 1>>
  /\ PreOrder(_projects[1].children, Root) = <<1, 2, 3, 4>>

-----------------------------------------------------------------------------
(* Properties of the lists of one traversal *)

\* C20: in one traversal of a project tree (any mix of sequential, parallel
\* and none-mode nodes, either marker mode) each item appears once at most in
\* add and remove taken together, an item in add did not carry the marker
\* before the traversal and an item in remove did.
C20_ListsDisjointAndJustified ==
  [][Traversing =>
       \A p \in DOMAIN _projects :
         LET both == states'[p].add_labels \o states'[p].remove_labels IN
           /\ Cardinality(Range(both)) = Len(both)
           /\ \A k \in Range(states'[p].add_labels) :
                ~Carries(_projects[p].children[k], _next_action_id)
           /\ \A k \in Range(states'[p].remove_labels) :
                Carries(_projects[p].children[k], _next_action_id)]_vars

\* a sequential project whose second item is parallel was traversed: the
\* first item was added, the parallel item and its child lost the marker
C20_Witness ==
  /\ Traversed
  /\ 1 \in DOMAIN states
  /\ Project_IsSequential(_projects[1])
  /\ Len(_projects[1].children) = 3
  /\ Item_IsParallel(_projects[1].children[2])
  /\ _projects[1].children[3].parent = 2
  /\ states[1].add_labels = <<1>>
  /\ states[1].remove_labels = <<3, 2>>

====
